---- MODULE Spec2Model ----
(***************************************************************************)
(* A model of the infinite_arrays crate: the lazily evaluated sequences of *)
(* src/src/arrays.rs, the progression ranges of src/src/ranges.rs, the     *)
(* pointwise operations of src/src/operations.rs and the mutable overlay   *)
(* of src/src/cache.rs.                                                    *)
(*                                                                         *)
(* Three specifications share the module:                                  *)
(*   SpecCache   a CachedArray, its iterators and its get_mut handle       *)
(*   SpecRanges  OneToInf / InfUnitRange / InfStepRange and their iterators*)
(*   SpecOps     a sequence built by one operation, then read by get       *)
(*   SpecAll     any one of the three: a sequence of any kind and its reads*)
(* Integers of the element and index types keep a (scaled down) width:     *)
(* an overflowing +, -, * panics in a build with overflow checks and wraps *)
(* in a build without them; integer division faults in both.              *)
(***************************************************************************)
EXTENDS Integers, Sequences, FiniteSets, TLC

VARIABLES
    overflow_checks, \* the build: TRUE = overflow checks on (debug), FALSE = wrapping (release)
    call,            \* the last call made on the object under test
    ret,             \* what that call returned: Ok(v), Some(v), Unit or Panic
    \* ---- CachedArray (src/src/cache.rs)
    base,            \* CachedArray.base
    cache,           \* CachedArray.cache : HashMap<usize, T>
    handle,          \* the index whose &mut T (from get_mut) is still borrowed, as a set
    iters,           \* the CachedArrayIter values alive, by name
    pre,             \* history: cache as it was before the last call
    base0,           \* history: the base handed to CachedArray::new
    lastSet,         \* history: the latest value stored at each index since the last clear_cache
    cleared,         \* history: clear_cache was called and nothing was stored since
    \* ---- progression ranges (src/src/ranges.rs)
    range,           \* the range value under test
    riter,           \* its iterator (OneToInfIter / InfUnitRangeIter / InfStepRangeIter)
    \* ---- operations (src/src/operations.rs)
    result,          \* the InfiniteArrayFromFn an operation returned (its closure's captures)
    prev             \* history: the call before the last one, with its result

shared == <<overflow_checks, call, ret>>
cacheVars == <<base, cache, handle, iters, pre, base0, lastSet, cleared>>
rangeVars == <<range, riter>>
opVars == <<result, prev>>
vars == <<shared, cacheVars, rangeVars, opVars>>

---------------------------------------------------------------------------
(* Bounds of the model.                                                    *)

\* Indices 0..MaxIndex are read and written.
MaxIndex == 2
\* Values 0..MaxVal are stored by set and through a get_mut handle.
MaxVal == 1

Index == 0 .. MaxIndex
Vals == 0 .. MaxVal

---------------------------------------------------------------------------
(* Results of calls.                                                       *)

Ok(v) == <<"Ok", v>>
Some(v) == <<"Some", v>>
Unit == <<"Unit">>
Panic == <<"Panic">>
IsOk(r) == r[1] = "Ok"
NoCall == [op |-> "none"]

---------------------------------------------------------------------------
(* src/src/arrays.rs: the sequences that implement InfiniteArray<T>.       *)

Ones == [kind |-> "Ones"]
Zeros == [kind |-> "Zeros"]
InfiniteArrayFromFn(f) == [kind |-> "FromFn", f |-> f]

\* <Ones<T> as InfiniteArray<T>>::get: T::one(), whatever the index.
Ones_get(index) == 1

\* <Zeros<T> as InfiniteArray<T>>::get: T::zero(), whatever the index.
Zeros_get(index) == 0

\* <InfiniteArrayFromFn<F, T> as InfiniteArray<T>>::get: (self.f)(index).
FromFn_get(arr, index) == arr.f[index]

\* The trait method InfiniteArray::get, dispatched on the implementing type.
InfiniteArray_get(arr, index) ==
    CASE arr.kind = "Ones" -> Ones_get(index)
      [] arr.kind = "Zeros" -> Zeros_get(index)
      [] arr.kind = "FromFn" -> FromFn_get(arr, index)

---------------------------------------------------------------------------
(* src/src/cache.rs: CachedArray<T, A> and CachedArrayIter.                *)

\* HashMap::new()
EmptyMap == [k \in {} |-> 0]

\* HashMap::insert(k, v): adds the key or replaces its value.
MapInsert(m, k, v) == [j \in (DOMAIN m) \cup {k} |-> IF j = k THEN v ELSE m[j]]

\* The bases wrapped: Ones, Zeros (arrays.rs) and two function-backed
\* sequences, |i| i * 2 (test_infinite_array_from_fn) and |i| i.
CacheBases ==
    { Ones, Zeros,
      InfiniteArrayFromFn([i \in Index |-> i * 2]),
      InfiniteArrayFromFn([i \in Index |-> i]) }

\* A get that forgets the overrides and always asks the base.
CachedArray_get_base_only(c, b, index) == InfiniteArray_get(b, index)

\* CachedArray::get: self.cache.get(&index).cloned().unwrap_or_else(|| self.base.get(index))
CachedArray_get(c, b, index) ==
    IF index \in DOMAIN c THEN c[index] ELSE InfiniteArray_get(b, index)

\* A set that keeps an override already there (entry().or_insert(value)).
CachedArray_set_if_absent(c, index, value) ==
    IF index \in DOMAIN c THEN c ELSE MapInsert(c, index, value)

\* CachedArray::set: self.cache.insert(index, value)
CachedArray_set(c, index, value) == MapInsert(c, index, value)

\* A get_mut that materializes T::default() (entry().or_default()), not base.get(index).
CachedArray_get_mut_or_default(c, b, index) ==
    IF index \in DOMAIN c THEN c ELSE MapInsert(c, index, 0)

\* CachedArray::get_mut: self.cache.entry(index).or_insert_with(|| self.base.get(index))
CachedArray_get_mut(c, b, index) ==
    IF index \in DOMAIN c THEN c ELSE MapInsert(c, index, InfiniteArray_get(b, index))

\* A clear_cache that leaves the overrides in place.
CachedArray_clear_cache_noop(c) == c

\* CachedArray::clear_cache: self.cache.clear()
CachedArray_clear_cache(c) == EmptyMap

\* CachedArray::cache_size: self.cache.len()
CachedArray_cache_size(c) == Cardinality(DOMAIN c)

\* CachedArray::iter: CachedArrayIter { cached: self, index: 0 }
CachedArray_iter == [live |-> TRUE, index |-> 0, yielded |-> <<>>]

\* No iterator: the name is unbound (never created, or dropped).
NoIter == [live |-> FALSE]

\* The iterator variables a caller holds; two are enough to compare them.
IterIds == {"it1", "it2"}

\* A shared borrow of the CachedArray is alive (an iterator holds &CachedArray).
SharedBorrow == \E id \in IterIds : iters[id].live

\* &self methods need no &mut borrow outstanding; &mut self methods need no borrow at all.
CanBorrow == handle = {}
CanBorrowMut == handle = {} /\ ~SharedBorrow

\* Placeholders of the other specifications' variables.
NoRange == [kind |-> "none"]
NoRangeIter == [live |-> FALSE]
NoResult == [op |-> "none"]

\* CachedArray::new(base): the cache starts empty. Nothing here does
\* arithmetic that can overflow, so one build stands for both.
InitCache ==
    /\ base \in CacheBases
    /\ base0 = base
    /\ cache = EmptyMap
    /\ handle = {}
    /\ iters = [id \in IterIds |-> NoIter]
    /\ pre = EmptyMap
    /\ lastSet = EmptyMap
    /\ cleared = FALSE
    /\ overflow_checks = TRUE
    /\ call = NoCall
    /\ ret = Unit
    /\ range = NoRange
    /\ riter = NoRangeIter
    /\ result = NoResult
    /\ prev = NoCall

\* A get that memoizes: a value read from the base is kept as an override.
Get_memoizing(index) ==
    /\ CanBorrow
    /\ call' = [op |-> "get", index |-> index]
    /\ ret' = Ok(CachedArray_get(cache, base, index))
    /\ cache' = CachedArray_get_mut(cache, base, index)
    /\ pre' = cache
    /\ UNCHANGED <<base, handle, iters, base0, lastSet, cleared>>
    /\ UNCHANGED <<overflow_checks, rangeVars, opVars>>

\* cached.get(index)
Get(index) ==
    /\ CanBorrow
    /\ call' = [op |-> "get", index |-> index]
    /\ ret' = Ok(CachedArray_get(cache, base, index))
    /\ pre' = cache
    /\ UNCHANGED <<base, cache, handle, iters, base0, lastSet, cleared>>
    /\ UNCHANGED <<overflow_checks, rangeVars, opVars>>

\* cached.set(index, value)
Set(index, value) ==
    /\ CanBorrowMut
    /\ cache' = CachedArray_set(cache, index, value)
    /\ call' = [op |-> "set", index |-> index, value |-> value, after_clear |-> cleared]
    /\ ret' = Unit
    /\ pre' = cache
    /\ lastSet' = MapInsert(lastSet, index, value)
    /\ cleared' = FALSE
    /\ UNCHANGED <<base, handle, iters, base0>>
    /\ UNCHANGED <<overflow_checks, rangeVars, opVars>>

\* let h = cached.get_mut(index): the entry is materialized and h borrows it
GetMut(index) ==
    /\ CanBorrowMut
    /\ cache' = CachedArray_get_mut(cache, base, index)
    /\ handle' = {index}
    /\ call' = [op |-> "get_mut", index |-> index]
    /\ ret' = Ok(cache'[index])
    /\ pre' = cache
    /\ cleared' = FALSE
    /\ UNCHANGED <<base, iters, base0, lastSet>>
    /\ UNCHANGED <<overflow_checks, rangeVars, opVars>>

\* *h = value, through the handle get_mut returned
HandleWrite(value) ==
    /\ handle # {}
    /\ \E index \in handle :
        /\ cache' = [cache EXCEPT ![index] = value]
        /\ call' = [op |-> "write", index |-> index, value |-> value]
        /\ lastSet' = MapInsert(lastSet, index, value)
    /\ ret' = Unit
    /\ pre' = cache
    /\ UNCHANGED <<base, handle, iters, base0, cleared>>
    /\ UNCHANGED <<overflow_checks, rangeVars, opVars>>

\* the handle goes out of scope
HandleRelease ==
    /\ handle # {}
    /\ handle' = {}
    /\ call' = [op |-> "release"]
    /\ ret' = Unit
    /\ pre' = cache
    /\ UNCHANGED <<base, cache, iters, base0, lastSet, cleared>>
    /\ UNCHANGED <<overflow_checks, rangeVars, opVars>>

\* cached.clear_cache()
ClearCache ==
    /\ CanBorrowMut
    /\ cache' = CachedArray_clear_cache(cache)
    /\ call' = [op |-> "clear_cache"]
    /\ ret' = Unit
    /\ pre' = cache
    /\ lastSet' = EmptyMap
    /\ cleared' = TRUE
    /\ UNCHANGED <<base, handle, iters, base0>>
    /\ UNCHANGED <<overflow_checks, rangeVars, opVars>>

\* cached.cache_size()
CacheSize ==
    /\ CanBorrow
    /\ call' = [op |-> "cache_size"]
    /\ ret' = Ok(CachedArray_cache_size(cache))
    /\ pre' = cache
    /\ UNCHANGED <<base, cache, handle, iters, base0, lastSet, cleared>>
    /\ UNCHANGED <<overflow_checks, rangeVars, opVars>>

\* let id = cached.iter()
Iter(id) ==
    /\ CanBorrow
    /\ ~iters[id].live
    /\ iters' = [iters EXCEPT ![id] = CachedArray_iter]
    /\ call' = [op |-> "iter", it |-> id]
    /\ ret' = Unit
    /\ pre' = cache
    /\ UNCHANGED <<base, cache, handle, base0, lastSet, cleared>>
    /\ UNCHANGED <<overflow_checks, rangeVars, opVars>>

\* A next that reads the base directly and so misses the overrides.
CachedArrayIter_next_base_only(it, c, b) ==
    [ item |-> Some(InfiniteArray_get(b, it.index)),
      iter |-> [it EXCEPT !.index = it.index + 1] ]

\* CachedArrayIter::next: Some(self.cached.get(self.index)), then self.index += 1
CachedArrayIter_next(it, c, b) ==
    [ item |-> Some(CachedArray_get(c, b, it.index)),
      iter |-> [it EXCEPT !.index = it.index + 1] ]

\* id.next(); the index read stays within the indices of the model
IterNext(id) ==
    /\ iters[id].live
    /\ iters[id].index <= MaxIndex
    /\ LET r == CachedArrayIter_next(iters[id], cache, base) IN
        /\ ret' = r.item
        /\ iters' = [iters EXCEPT ![id] =
                        [r.iter EXCEPT !.yielded = Append(iters[id].yielded, r.item)]]
    /\ call' = [op |-> "next", it |-> id]
    /\ pre' = cache
    /\ UNCHANGED <<base, cache, handle, base0, lastSet, cleared>>
    /\ UNCHANGED <<overflow_checks, rangeVars, opVars>>

\* id goes out of scope
IterDrop(id) ==
    /\ iters[id].live
    /\ iters' = [iters EXCEPT ![id] = NoIter]
    /\ call' = [op |-> "drop", it |-> id]
    /\ ret' = Unit
    /\ pre' = cache
    /\ UNCHANGED <<base, cache, handle, base0, lastSet, cleared>>
    /\ UNCHANGED <<overflow_checks, rangeVars, opVars>>

---------------------------------------------------------------------------
(* SpecCache: one CachedArray and its callers.                             *)

NextCache ==
    \/ \E index \in Index : Get(index)
    \/ \E index \in Index, value \in Vals : Set(index, value)
    \/ \E index \in Index : GetMut(index)
    \/ \E value \in Vals : HandleWrite(value)
    \/ HandleRelease
    \/ ClearCache
    \/ CacheSize
    \/ \E id \in IterIds : Iter(id)
    \/ \E id \in IterIds : IterNext(id)
    \/ \E id \in IterIds : IterDrop(id)

SpecCache == InitCache /\ [][NextCache]_vars

---------------------------------------------------------------------------
(* Claims about CachedArray, checked under SpecCache.                      *)

\* What the history says get(i) is: the latest value stored at i since the
\* last clear_cache, else the value of the base handed to new.
Stored(i) == IF i \in DOMAIN lastSet THEN lastSet[i] ELSE InfiniteArray_get(base0, i)

\* C1: in every reachable state and for every index i, get(i) is the override
\* stored for i (the latest value stored there since the last clear_cache)
\* if there is one and base.get(i) otherwise, a get call returns exactly
\* that, and the base is the one given to new.
C1_GetOverrideElseBase ==
    /\ base = base0
    /\ \A i \in Index : CachedArray_get(cache, base, i) = Stored(i)
    /\ \A i \in DOMAIN lastSet : i \in DOMAIN cache /\ cache[i] = lastSet[i]
    /\ call.op = "get" => ret = Ok(Stored(call.index))

\* C1 witness: get has just returned an override that differs from the base,
\* while another index holds an entry get_mut materialized.
C1_Witness ==
    /\ call.op = "get"
    /\ call.index \in DOMAIN lastSet
    /\ ret # Ok(InfiniteArray_get(base, call.index))
    /\ \E j \in DOMAIN cache : j \notin DOMAIN lastSet

\* C2: after set(i, v), get(i) = v, get(j) is what it was for every j # i,
\* and cache_size grew by one if i had no override and not at all if it had.
C2_SetFrame ==
    call.op = "set" =>
        /\ CachedArray_get(cache, base, call.index) = call.value
        /\ \A j \in Index \ {call.index} :
              CachedArray_get(cache, base, j) = CachedArray_get(pre, base, j)
        /\ DOMAIN cache = DOMAIN pre \cup {call.index}
        /\ CachedArray_cache_size(cache) =
              CachedArray_cache_size(pre) + (IF call.index \in DOMAIN pre THEN 0 ELSE 1)

\* C2 witness: set has replaced an override by a different value while
\* another index was overridden too.
C2_Witness ==
    /\ call.op = "set"
    /\ call.index \in DOMAIN pre
    /\ pre[call.index] # call.value
    /\ \E j \in DOMAIN pre : j # call.index

\* C3: from clear_cache until the next set or get_mut there is no override
\* and get(i) = base.get(i) for every i; a set made in that state is visible.
C3_ClearCache ==
    /\ cleared =>
        /\ CachedArray_cache_size(cache) = 0
        /\ \A i \in Index : CachedArray_get(cache, base, i) = InfiniteArray_get(base, i)
    /\ call.op = "clear_cache" => cleared
    /\ (call.op = "set" /\ call.after_clear) =>
          CachedArray_get(cache, base, call.index) = call.value

\* C3 witness: clear_cache has just dropped an override that differed from the base.
C3_Witness ==
    /\ call.op = "clear_cache"
    /\ \E i \in DOMAIN pre : pre[i] # InfiniteArray_get(base, i)

\* The live iterators.
Live == {id \in IterIds : iters[id].live}

C10_GetMutMaterializes ==
    /\ call.op = "get_mut" =>
        /\ call.index \notin DOMAIN pre =>
              /\ cache = MapInsert(pre, call.index, InfiniteArray_get(base, call.index))
              /\ CachedArray_cache_size(cache) = CachedArray_cache_size(pre) + 1
        /\ call.index \in DOMAIN pre => cache = pre
        /\ \A k \in Index : CachedArray_get(cache, base, k) = CachedArray_get(pre, base, k)
        /\ ret = Ok(CachedArray_get(pre, base, call.index))
        /\ handle = {call.index}
    /\ call.op = "write" =>
        /\ CachedArray_get(cache, base, call.index) = call.value
        /\ \A k \in Index \ {call.index} :
              CachedArray_get(cache, base, k) = CachedArray_get(pre, base, k)
    /\ call.op = "release" => cache = pre

\* C10 witness: get_mut has materialized an entry whose base value is not
\* the element type's default (0), next to an override already there.
C10_Witness ==
    /\ call.op = "get_mut"
    /\ call.index \notin DOMAIN pre
    /\ InfiniteArray_get(base, call.index) # 0
    /\ DOMAIN pre # {}

---------------------------------------------------------------------------
(* src/src/ranges.rs: OneToInf, InfUnitRange, InfStepRange over T = usize, *)
(* the one primitive integer type with From<usize>.                        *)

\* usize::MAX of the model: a usize is one of 0..MaxWord.
MaxWord == 7

Word == 0 .. MaxWord

\* The outcome of a usize +, * whose exact result is n: n when it fits; on
\* overflow a panic with overflow checks, the value modulo 2^w without.
usize_arith(n) ==
    IF n <= MaxWord THEN Ok(n)
    ELSE IF overflow_checks THEN Panic ELSE Ok(n % (MaxWord + 1))

usize_add(x, y) == usize_arith(x + y)
usize_mul(x, y) == usize_arith(x * y)

OneToInf == [kind |-> "OneToInf"]
InfUnitRange(start) == [kind |-> "InfUnitRange", start |-> start]
InfStepRange(start, step) == [kind |-> "InfStepRange", start |-> start, step |-> step]

\* OneToInf::get: T::from(index + 1)
OneToInf_get(index) == usize_add(index, 1)

\* InfUnitRange::get: if index == 0 { self.start } else { self.start + T::from(index) }
InfUnitRange_get(r, index) ==
    IF index = 0 THEN Ok(r.start) ELSE usize_add(r.start, index)

\* An InfStepRange::get with start and step taken for each other.
InfStepRange_get_swapped(r, index) ==
    LET m == usize_mul(r.start, index) IN
    IF m = Panic THEN Panic ELSE usize_add(r.step, m[2])

\* InfStepRange::get: self.start + self.step * T::from(index)
InfStepRange_get(r, index) ==
    LET m == usize_mul(r.step, index) IN
    IF m = Panic THEN Panic ELSE usize_add(r.start, m[2])

\* get of the range under test
Range_get(r, index) ==
    CASE r.kind = "OneToInf" -> OneToInf_get(index)
      [] r.kind = "InfUnitRange" -> InfUnitRange_get(r, index)
      [] r.kind = "InfStepRange" -> InfStepRange_get(r, index)

\* OneToInf::iter: OneToInfIter { current: T::one() }
OneToInf_iter == [live |-> TRUE, kind |-> "OneToInfIter", current |-> 1, count |-> 0]

\* InfUnitRange::iter: InfUnitRangeIter { current: self.start }
InfUnitRange_iter(r) ==
    [live |-> TRUE, kind |-> "InfUnitRangeIter", current |-> r.start, count |-> 0]

\* InfStepRange::iter: InfStepRangeIter { current: self.start, step: self.step }
InfStepRange_iter(r) ==
    [live |-> TRUE, kind |-> "InfStepRangeIter", current |-> r.start,
     step |-> r.step, count |-> 0]

\* iter of the range under test
Range_iter(r) ==
    CASE r.kind = "OneToInf" -> OneToInf_iter
      [] r.kind = "InfUnitRange" -> InfUnitRange_iter(r)
      [] r.kind = "InfStepRange" -> InfStepRange_iter(r)

\* What a next() does once the successor is computed: the addition panics
\* before anything is stored or returned, else current is replaced and the
\* old current returned. count is history: the elements yielded so far.
Advance(it, succ) ==
    IF succ = Panic
    THEN [item |-> Panic, iter |-> it]
    ELSE [item |-> Some(it.current),
          iter |-> [it EXCEPT !.current = succ[2], !.count = it.count + 1]]

\* OneToInfIter::next: result = current; current = current + T::one(); Some(result)
OneToInfIter_next(it) == Advance(it, usize_add(it.current, 1))

\* InfUnitRangeIter::next: result = current; current = current + T::one(); Some(result)
InfUnitRangeIter_next(it) == Advance(it, usize_add(it.current, 1))

\* An InfStepRangeIter::next that advances by one, not by the step.
InfStepRangeIter_next_unit(it) == Advance(it, usize_add(it.current, 1))

\* InfStepRangeIter::next: result = current; current = current + step; Some(result)
InfStepRangeIter_next(it) == Advance(it, usize_add(it.current, it.step))

\* next of the iterator under test
RangeIter_next(it) ==
    CASE it.kind = "OneToInfIter" -> OneToInfIter_next(it)
      [] it.kind = "InfUnitRangeIter" -> InfUnitRangeIter_next(it)
      [] it.kind = "InfStepRangeIter" -> InfStepRangeIter_next(it)

\* The ranges constructed: OneToInf::new(), InfUnitRange::new(start),
\* InfStepRange::new(start, step), in either build.
InitRanges ==
    /\ range \in {OneToInf}
                 \cup {InfUnitRange(start) : start \in Word}
                 \cup {InfStepRange(start, step) : start \in Word, step \in Word}
    /\ riter = NoRangeIter
    /\ overflow_checks \in BOOLEAN
    /\ call = NoCall
    /\ ret = Unit
    /\ base = Zeros
    /\ base0 = Zeros
    /\ cache = EmptyMap
    /\ handle = {}
    /\ iters = [id \in IterIds |-> NoIter]
    /\ pre = EmptyMap
    /\ lastSet = EmptyMap
    /\ cleared = FALSE
    /\ result = NoResult
    /\ prev = NoCall

\* range.get(index)
RangeGet(index) ==
    /\ call' = [op |-> "get", index |-> index]
    /\ ret' = Range_get(range, index)
    /\ UNCHANGED <<overflow_checks, range, riter, cacheVars, opVars>>

\* let it = range.iter(), replacing any iterator held before
RangeIter ==
    /\ riter' = Range_iter(range)
    /\ call' = [op |-> "iter"]
    /\ ret' = Unit
    /\ UNCHANGED <<overflow_checks, range, cacheVars, opVars>>

\* it.next(); k is the number of elements it yielded before. The position
\* stays a usize: the k-th element is compared with get(k).
RangeNext ==
    /\ riter.live
    /\ riter.count <= MaxWord
    /\ LET r == RangeIter_next(riter) IN
        /\ ret' = r.item
        /\ riter' = r.iter
    /\ call' = [op |-> "next", k |-> riter.count]
    /\ UNCHANGED <<overflow_checks, range, cacheVars, opVars>>

NextRanges ==
    \/ \E index \in Word : RangeGet(index)
    \/ RangeIter
    \/ RangeNext

SpecRanges == InitRanges /\ [][NextRanges]_vars

---------------------------------------------------------------------------
(* Claims about the progression ranges, checked under SpecRanges.          *)

\* The closed form over the unbounded integers: i + 1, start + i, start + step * i.
ClosedForm(r, i) ==
    CASE r.kind = "OneToInf" -> i + 1
      [] r.kind = "InfUnitRange" -> r.start + i
      [] r.kind = "InfStepRange" -> r.start + r.step * i

\* C6 as claimed: get(i) returns the closed form for every index of the index type.
C6_ClosedFormEveryIndex ==
    call.op = "get" => ret = Ok(ClosedForm(range, call.index))

\* C6 as amended: get(i) returns the closed form whenever it fits the
\* element type; when it does not, get(i) panics in a build with overflow
\* checks and returns the closed form modulo 2^w in a build without.
C6_ClosedFormUnlessOverflow ==
    call.op = "get" =>
        LET n == ClosedForm(range, call.index) IN
        /\ n <= MaxWord => ret = Ok(n)
        /\ (n > MaxWord /\ overflow_checks) => ret = Panic
        /\ (n > MaxWord /\ ~overflow_checks) => ret = Ok(n % (MaxWord + 1))

\* C6 witness: an InfStepRange with start > 0 and step > 1 has returned its
\* closed form at an index > 1.
C6_Witness ==
    /\ call.op = "get"
    /\ call.index > 1
    /\ range.kind = "InfStepRange"
    /\ range.start > 0
    /\ range.step > 1
    /\ ret = Ok(range.start + range.step * call.index)

\* C7 as claimed: the k-th element of the iterator is get(k), for every k
\* (a get(k) that faults is matched by a next that faults).
C7_IterEqualsGetEveryK ==
    /\ call.op = "next" =>
          LET g == Range_get(range, call.k) IN
          ret = IF g = Panic THEN Panic ELSE Some(g[2])
    /\ call.op = "iter" => Ok(riter.current) = Range_get(range, 0)

\* C7 as amended: a fresh iterator starts at get(0), and the k-th next
\* returns get(k) provided the element after it, the closed form at k + 1,
\* fits the element type; when that does not fit, the k-th next panics in a
\* build with overflow checks (one call before get would) and still returns
\* get(k) in a build without.
C7_IterEqualsGetUnlessOverflow ==
    /\ call.op = "next" =>
          LET g == Range_get(range, call.k) IN
          IF overflow_checks /\ ClosedForm(range, call.k + 1) > MaxWord
          THEN ret = Panic
          ELSE g # Panic /\ ret = Some(g[2])
    /\ call.op = "iter" =>
          /\ Ok(riter.current) = Range_get(range, 0)
          /\ riter.count = 0

\* C7 witness: the iterator of an InfStepRange with start > 0 and step > 1
\* has yielded its element 2, equal to get(2).
C7_Witness ==
    /\ call.op = "next"
    /\ call.k = 2
    /\ range.kind = "InfStepRange"
    /\ range.step > 1
    /\ range.start > 0
    /\ ret = Some(range.start + range.step * 2)

---------------------------------------------------------------------------
(* src/src/operations.rs over a signed integer element type T.             *)

\* T::MAX of the model: a T is one of MinInt..MaxInt, MinInt = -MaxInt - 1.
MaxInt == 2

MinInt == (0 - MaxInt) - 1
Elem == MinInt .. MaxInt

\* Two's complement wrapping of an exact result into T.
WrapT(n) == ((n - MinInt) % (2 * MaxInt + 2)) + MinInt

\* The outcome of a T +, -, * whose exact result is n: n when it fits; on
\* overflow a panic with overflow checks, the wrapped value without.
T_arith(n) ==
    IF n \in Elem THEN Ok(n)
    ELSE IF overflow_checks THEN Panic ELSE Ok(WrapT(n))

\* <T as Add>::add, <T as Sub>::sub, <T as Mul>::mul
T_add(x, y) == T_arith(x + y)
T_sub(x, y) == T_arith(x - y)
T_mul(x, y) == T_arith(x * y)

Abs(n) == IF n < 0 THEN 0 - n ELSE n

\* <T as Div>::div: panics on a zero divisor and on MIN / -1 in every
\* build; otherwise the quotient rounded toward zero.
T_div(x, y) ==
    IF y = 0 \/ (x = MinInt /\ y = 0 - 1) THEN Panic
    ELSE IF (x < 0) = (y < 0) THEN Ok(Abs(x) \div Abs(y))
    ELSE Ok(0 - (Abs(x) \div Abs(y)))

\* Element values the input sequences are made of: the extremes of T and
\* the values around zero.
SampleVals == {MinInt, 0 - 1, 0, 1, MaxInt}
SampleSeq == <<MinInt, 0 - 1, 0, 1, MaxInt>>

\* Inputs of cumsum: Ones, Zeros and every function-backed sequence whose
\* values are sample values.
SumInputs == {Ones, Zeros} \cup {InfiniteArrayFromFn(t) : t \in [Index -> SampleVals]}

\* Inputs of the pointwise operations: Ones, Zeros and the function-backed
\* sequences running through the sample values from each starting point,
\* so that every pair of sample values meets at every index.
Inputs ==
    {Ones, Zeros} \cup
    {InfiniteArrayFromFn([i \in Index |-> SampleSeq[((i + k) % Len(SampleSeq)) + 1]]) :
        k \in 0 .. Len(SampleSeq) - 1}

\* The functions broadcast is given: |x| x * 2 (test_broadcast), |x| 0 - x, |x| x + 1.
Fns == {"double", "negate", "succ"}
Apply(f, x) ==
    CASE f = "double" -> T_mul(x, 2)
      [] f = "negate" -> T_sub(0, x)
      [] f = "succ" -> T_add(x, 1)

\* The constructors: InfiniteArrayFromFn::new(move |i| ...) captures the
\* inputs and evaluates nothing.
cumsum(arr) == [op |-> "cumsum", arr |-> arr]
broadcast(arr, f) == [op |-> "broadcast", arr |-> arr, f |-> f]
add_arrays(a, b) == [op |-> "add_arrays", a |-> a, b |-> b]
sub_arrays(a, b) == [op |-> "sub_arrays", a |-> a, b |-> b]
mul_arrays(a, b) == [op |-> "mul_arrays", a |-> a, b |-> b]
div_arrays(a, b) == [op |-> "div_arrays", a |-> a, b |-> b]
add_scalar(arr, scalar) == [op |-> "add_scalar", arr |-> arr, scalar |-> scalar]
mul_scalar(arr, scalar) == [op |-> "mul_scalar", arr |-> arr, scalar |-> scalar]

\* (from..=to).fold(acc, |acc, idx| acc + arr.get(idx)); a panicking
\* addition ends the fold.
RECURSIVE Fold(_, _, _, _)
Fold(arr, acc, from, to) ==
    IF acc = Panic \/ from > to THEN acc
    ELSE Fold(arr, T_add(acc[2], InfiniteArray_get(arr, from)), from + 1, to)

\* A cumsum closure over the exclusive range 0..i.
cumsum_closure_exclusive(arr, i) == Fold(arr, Ok(0), 0, i - 1)

\* cumsum's closure: (0..=i).fold(T::zero(), |acc, idx| acc + arr_clone.get(idx))
cumsum_closure(arr, i) == Fold(arr, Ok(0), 0, i)

\* broadcast's closure: f(arr_clone.get(i))
broadcast_closure(arr, f, i) == Apply(f, InfiniteArray_get(arr, i))

\* add_arrays' closure: a_clone.get(i) + b_clone.get(i)
add_arrays_closure(a, b, i) == T_add(InfiniteArray_get(a, i), InfiniteArray_get(b, i))

\* A sub_arrays closure with the operands exchanged.
sub_arrays_closure_swapped(a, b, i) == T_sub(InfiniteArray_get(b, i), InfiniteArray_get(a, i))

\* sub_arrays' closure: a_clone.get(i) - b_clone.get(i)
sub_arrays_closure(a, b, i) == T_sub(InfiniteArray_get(a, i), InfiniteArray_get(b, i))

\* mul_arrays' closure: a_clone.get(i) * b_clone.get(i)
mul_arrays_closure(a, b, i) == T_mul(InfiniteArray_get(a, i), InfiniteArray_get(b, i))

\* A div_arrays closure that gives zero for a zero divisor.
div_arrays_closure_guarded(a, b, i) ==
    IF InfiniteArray_get(b, i) = 0 THEN Ok(0)
    ELSE T_div(InfiniteArray_get(a, i), InfiniteArray_get(b, i))

\* div_arrays' closure: a_clone.get(i) / b_clone.get(i)
div_arrays_closure(a, b, i) == T_div(InfiniteArray_get(a, i), InfiniteArray_get(b, i))

\* add_scalar's closure: arr_clone.get(i) + scalar
add_scalar_closure(arr, scalar, i) == T_add(InfiniteArray_get(arr, i), scalar)

\* mul_scalar's closure: arr_clone.get(i) * scalar
mul_scalar_closure(arr, scalar, i) == T_mul(InfiniteArray_get(arr, i), scalar)

\* <InfiniteArrayFromFn as InfiniteArray>::get on an operation's result:
\* (self.f)(index), f being the closure the operation built.
Result_get(res, i) ==
    CASE res.op = "cumsum" -> cumsum_closure(res.arr, i)
      [] res.op = "broadcast" -> broadcast_closure(res.arr, res.f, i)
      [] res.op = "add_arrays" -> add_arrays_closure(res.a, res.b, i)
      [] res.op = "sub_arrays" -> sub_arrays_closure(res.a, res.b, i)
      [] res.op = "mul_arrays" -> mul_arrays_closure(res.a, res.b, i)
      [] res.op = "div_arrays" -> div_arrays_closure(res.a, res.b, i)
      [] res.op = "add_scalar" -> add_scalar_closure(res.arr, res.scalar, i)
      [] res.op = "mul_scalar" -> mul_scalar_closure(res.arr, res.scalar, i)

\* Nothing is built yet; the build is either one.
InitOps ==
    /\ result = NoResult
    /\ prev = NoCall
    /\ overflow_checks \in BOOLEAN
    /\ call = NoCall
    /\ ret = Unit
    /\ base = Zeros
    /\ base0 = Zeros
    /\ cache = EmptyMap
    /\ handle = {}
    /\ iters = [id \in IterIds |-> NoIter]
    /\ pre = EmptyMap
    /\ lastSet = EmptyMap
    /\ cleared = FALSE
    /\ range = NoRange
    /\ riter = NoRangeIter

\* let result = <operation>(inputs): the call returns the lazy sequence.
Built(res) ==
    /\ result' = res
    /\ call' = [op |-> res.op]
    /\ ret' = Unit
    /\ UNCHANGED <<overflow_checks, prev, cacheVars, rangeVars>>

Cumsum ==
    /\ result = NoResult
    /\ \E arr \in SumInputs : Built(cumsum(arr))
Broadcast ==
    /\ result = NoResult
    /\ \E arr \in Inputs, f \in Fns : Built(broadcast(arr, f))
AddArrays ==
    /\ result = NoResult
    /\ \E a \in Inputs, b \in Inputs : Built(add_arrays(a, b))
SubArrays ==
    /\ result = NoResult
    /\ \E a \in Inputs, b \in Inputs : Built(sub_arrays(a, b))
MulArrays ==
    /\ result = NoResult
    /\ \E a \in Inputs, b \in Inputs : Built(mul_arrays(a, b))
DivArrays ==
    /\ result = NoResult
    /\ \E a \in Inputs, b \in Inputs : Built(div_arrays(a, b))
AddScalar ==
    /\ result = NoResult
    /\ \E arr \in Inputs, scalar \in SampleVals : Built(add_scalar(arr, scalar))
MulScalar ==
    /\ result = NoResult
    /\ \E arr \in Inputs, scalar \in SampleVals : Built(mul_scalar(arr, scalar))

\* result.get(index); a panic unwinds to the caller, who may call again.
ResultGet(index) ==
    /\ result # NoResult
    /\ call' = [op |-> "get", index |-> index]
    /\ ret' = Result_get(result, index)
    /\ prev' = IF call.op = "get" THEN [op |-> "get", index |-> call.index, ret |-> ret]
               ELSE NoCall
    /\ UNCHANGED <<overflow_checks, result, cacheVars, rangeVars>>

NextOps ==
    \/ Cumsum
    \/ Broadcast
    \/ AddArrays
    \/ SubArrays
    \/ MulArrays
    \/ DivArrays
    \/ AddScalar
    \/ MulScalar
    \/ \E index \in Index : ResultGet(index)

SpecOps == InitOps /\ [][NextOps]_vars

---------------------------------------------------------------------------
(* Claims about the operations, checked under SpecOps.                     *)

\* The sum of arr.get(0), ..., arr.get(i) over the unbounded integers.
RECURSIVE MathSum(_, _)
MathSum(arr, i) ==
    IF i = 0 THEN InfiniteArray_get(arr, 0)
    ELSE MathSum(arr, i - 1) + InfiniteArray_get(arr, i)

\* Every partial sum up to i fits the element type.
PartialsFit(arr, i) == \A k \in 0 .. i : MathSum(arr, k) \in Elem

\* get has just been called on the result of operation op.
GotFrom(op) == call.op = "get" /\ result.op = op

Perturbed(arr, i) ==
    IF arr.kind = "FromFn"
    THEN {InfiniteArrayFromFn([arr.f EXCEPT ![j] = v]) : j \in Index \ {i}, v \in SampleVals}
    ELSE {arr}

\* C8: get(i) on the result of a pointwise operation is the element type's
\* operator applied to the inputs' values at i, first input on the left
\* (a fault of the operator is a fault of get), and it is the same for any
\* input that differs only at other indices.
C8_Pointwise ==
    call.op = "get" =>
        LET i == call.index IN
        /\ result.op \in {"add_arrays", "sub_arrays", "mul_arrays", "div_arrays"} =>
            LET x == InfiniteArray_get(result.a, i)
                y == InfiniteArray_get(result.b, i) IN
            /\ ret = CASE result.op = "add_arrays" -> T_add(x, y)
                       [] result.op = "sub_arrays" -> T_sub(x, y)
                       [] result.op = "mul_arrays" -> T_mul(x, y)
                       [] result.op = "div_arrays" -> T_div(x, y)
            /\ \A a2 \in Perturbed(result.a, i), b2 \in Perturbed(result.b, i) :
                  Result_get([result EXCEPT !.a = a2, !.b = b2], i) = ret
        /\ result.op \in {"add_scalar", "mul_scalar"} =>
            LET x == InfiniteArray_get(result.arr, i) IN
            /\ ret = CASE result.op = "add_scalar" -> T_add(x, result.scalar)
                       [] result.op = "mul_scalar" -> T_mul(x, result.scalar)
            /\ \A a2 \in Perturbed(result.arr, i) :
                  Result_get([result EXCEPT !.arr = a2], i) = ret
        /\ result.op = "broadcast" =>
            /\ ret = Apply(result.f, InfiniteArray_get(result.arr, i))
            /\ \A a2 \in Perturbed(result.arr, i) :
                  Result_get([result EXCEPT !.arr = a2], i) = ret

\* C8 witness: sub_arrays has returned a non-zero difference at an index
\* >= 1 where both inputs differ from their values at index 0.
C8_Witness ==
    /\ GotFrom("sub_arrays")
    /\ call.index >= 1
    /\ InfiniteArray_get(result.a, call.index) # InfiniteArray_get(result.a, 0)
    /\ InfiniteArray_get(result.b, call.index) # InfiniteArray_get(result.b, 0)
    /\ ret = Ok(InfiniteArray_get(result.a, call.index)
                  - InfiniteArray_get(result.b, call.index))
    /\ ret # Ok(0)

\* q is x / y rounded toward zero: x = q * y + r with |r| < |y| and r zero
\* or of the sign of x.
IsQuotient(x, y, q) ==
    LET r == x - q * y IN
    /\ Abs(r) < Abs(y)
    /\ r = 0 \/ (r < 0) = (x < 0)

\* C9 as claimed: building div_arrays(a, b) does not fault, get(i) faults
\* exactly when b.get(i) is zero, and otherwise returns a.get(i) / b.get(i).
C9_DivFaultsOnlyOnZero ==
    /\ call.op = "div_arrays" => ret = Unit
    /\ GotFrom("div_arrays") =>
        LET x == InfiniteArray_get(result.a, call.index)
            y == InfiniteArray_get(result.b, call.index) IN
        /\ ret = Panic <=> y = 0
        /\ ret # Panic => IsOk(ret) /\ IsQuotient(x, y, ret[2])

\* C9 as amended: building div_arrays(a, b) does not fault; get(i) faults
\* exactly when b.get(i) is zero or, the type being signed, a.get(i) is its
\* minimum and b.get(i) is -1; at every other index get returns
\* a.get(i) / b.get(i), whatever call came before, a faulting one included.
C9_DivFaultsOnZeroOrOverflow ==
    /\ call.op = "div_arrays" => ret = Unit
    /\ GotFrom("div_arrays") =>
        LET x == InfiniteArray_get(result.a, call.index)
            y == InfiniteArray_get(result.b, call.index) IN
        /\ ret = Panic <=> (y = 0 \/ (x = MinInt /\ y = 0 - 1))
        /\ ret # Panic => IsOk(ret) /\ IsQuotient(x, y, ret[2])

\* C9 witness: right after a get that faulted on a zero divisor, a get at
\* another index has returned MIN / MAX = -1, a quotient rounded toward zero.
C9_Witness ==
    /\ GotFrom("div_arrays")
    /\ prev.op = "get"
    /\ prev.ret = Panic
    /\ InfiniteArray_get(result.b, prev.index) = 0
    /\ prev.index # call.index
    /\ InfiniteArray_get(result.a, call.index) = MinInt
    /\ InfiniteArray_get(result.b, call.index) = MaxInt
    /\ ret = Ok(0 - 1)

---------------------------------------------------------------------------
(* SpecAll: a program that makes one sequence of any kind (a CachedArray   *)
(* over Ones, Zeros or a function-backed sequence; a progression range;    *)
(* the result of an operation) and then calls it as the specification of   *)
(* that kind allows.                                                       *)

\* The sequence under test is a CachedArray, a range, an operation's result.
CacheMode == range = NoRange /\ result = NoResult /\ overflow_checks
RangesMode == range # NoRange
OpsMode == range = NoRange /\ base = Zeros /\ (call = NoCall \/ result # NoResult)

InitAll == InitCache \/ InitRanges \/ InitOps

NextAll ==
    \/ CacheMode /\ NextCache
    \/ RangesMode /\ NextRanges
    \/ OpsMode /\ NextOps

SpecAll == InitAll /\ [][NextAll]_vars

---------------------------------------------------------------------------
(* Claim about reading, checked under SpecAll.                             *)

\* The calls that only read: get on any sequence, next on an iterator.
IsRead(c) == c.op \in {"get", "next"}

\* One step of any behaviour, as C11 constrains it.
C11_Step ==
    \* a read leaves the sequence as it was: overrides, their number, the
    \* base, the range, the operation's captured inputs
    /\ IsRead(call') =>
        /\ cache' = cache
        /\ CachedArray_cache_size(cache') = CachedArray_cache_size(cache)
        /\ base' = base
        /\ range' = range
        /\ result' = result
    \* get(i) right after get(i) returns the same
    /\ (call.op = "get" /\ call'.op = "get" /\ call'.index = call.index) => ret' = ret
    \* get(i) returns what a live iterator read at i earlier (the iterator's
    \* borrow rules out any mutation in between)
    /\ call'.op = "get" =>
        \A id \in IterIds :
            (iters'[id].live /\ call'.index < Len(iters'[id].yielded)) =>
                ret' = Ok(iters'[id].yielded[call'.index + 1][2])
    \* an override appears only at the index a set or get_mut names
    /\ (DOMAIN cache') \ (DOMAIN cache) \subseteq
          (IF call'.op \in {"set", "get_mut"} THEN {call'.index} ELSE {})

\* C11: reading is pure and never memoizes: on every kind of sequence a
\* get(i) repeated with no mutation in between returns the same value, and
\* CachedArray::get and CachedArrayIter::next leave the override mapping and
\* cache_size unchanged, so an override exists only where set or get_mut
\* put it.
C11_ReadsArePure == [][C11_Step]_vars

\* C11 witness: with an override elsewhere, get(i) has returned the base
\* value at an index that a live iterator had already read and that still
\* has no override.
C11_Witness ==
    /\ call.op = "get"
    /\ CacheMode
    /\ call.index \notin DOMAIN cache
    /\ DOMAIN cache # {}
    /\ \E id \in IterIds : iters[id].live /\ call.index < Len(iters[id].yielded)
    /\ ret = Ok(InfiniteArray_get(base, call.index))
    /\ InfiniteArray_get(base, call.index) # 0

====
